---- MODULE Spec2Model ----
(***************************************************************************)
(* h2loadGo: the per-connection request pump (H2Client), its statistics    *)
(* collector, log sink and rate limiter, and the connection pool           *)
(* (H2loadClient) with its fan-out helper RunConcurrent.                   *)
(*                                                                         *)
(* Goroutines are processes with a program counter; a Go select with       *)
(* several ready cases is a nondeterministic choice among them, and its    *)
(* default branch is taken only when no case is ready.  An unrecovered     *)
(* panic in any goroutine ends the process: no action is enabled after it. *)
(***************************************************************************)
EXTENDS Integers, Sequences, FiniteSets, TLC

\* ---------------------------------------------------------------- bounds
MaxRequests == 2
MaxStreams == 2
MaxRps == 1
MaxLat == 1
MaxSent == 2
MaxRateRequests == 1
MaxRateStreams == 1
StatsChanCap == 1
LogChanCap == 1

RpsModeBurst == 0
RpsModeEven == 1

\* Status 0 is the transport-failure sentinel of DoRequest; 200 is a success
\* and 404 a response outside the 2xx-3xx range.
Statuses == {0, 200, 404}
\* time.Since(start) of a completed round trip, and of a run: positive.
Latencies == 1..MaxLat

Phases == {"run", "resp", "err", "store", "fin"}

VARIABLES
    conf,          \* H2loadConf: Requests, Rps, RpsMode, ConcurrentStreams, Clients
    panicked,      \* an unrecovered panic has ended the process
    ctxDone,       \* [c] h.ctx is cancelled
    sentRequests,  \* [c] h.sentRequests
    pumpPc,        \* [c] position of DoRequestsFactory
    async,         \* [c] the pump was started by DoRequestsFactoryAsync
    streams,       \* [c] len(streams)
    tasks,         \* [c] request goroutines, counted by phase
    firstErr,      \* [c] firstErr holds an error
    statsChan,     \* [c] h.statsChan: queued LogEntry values
    statsClosed,   \* [c] h.statsChan is closed
    colPc,         \* [c] position of statsCollector
    colEntry,      \* [c] the entry statsCollector is processing
    stats,         \* [c] h.stats
    logger,        \* [c] h.logger is set (SetLogger was called)
    logChan,       \* [c] len(h.logChan)
    logClosed,     \* [c] h.logChan is closed
    sinkPc,        \* [c] position of the logger goroutine
    rpsTokens,     \* [c] len(rpsTokens)
    rpsClosed,     \* [c] rpsTokens is closed
    tickersOn,     \* [c] the tickers are running
    resetTick,     \* [c] a tick is buffered in rpsResetTicker.C
    evenTick,      \* [c] a tick is buffered in evenTicker.C
    burstPc,       \* [c] position of the one-second refill goroutine
    burstI,        \* [c] its loop index i
    evenPc,        \* [c] position of the even refill goroutine
    reqWg,         \* [c] h.reqWg counter
    waitPc,        \* [c] position of a caller inside Stop()/Wait()
    launched,      \* [c] history: request goroutines started
    enqueued,      \* [c] history: outcomes accepted by statsChan
    dropped,       \* [c] history: outcomes discarded because statsChan was full
    failedCalls,   \* [c] history: transport calls that returned an error
    tokenHeld,     \* [c] history: the pump took a token it has not dispatched on
    sinceTick,     \* [c] history: requests dispatched since rpsResetTicker fired
    runPc,         \* pool: position of Run()
    callPc,        \* pool: position of the caller of Stop()/Wait()
    startPc,       \* pool: position of Start()
    aggClients,    \* GetTotalStats: what GetStats returns, per client
    aggIdx,        \* GetTotalStats: clients folded so far
    totalStats,    \* GetTotalStats: totalStats
    newConf,       \* NewH2loadClient: its argument
    newClients,    \* NewH2loadClient: the clients slice
    newResult,     \* NewH2loadClient: how the call ended
    fnCalls,       \* RunConcurrent: [i] history: calls of fn on item i
    fnErr,         \* RunConcurrent: [i] fn returned an error on item i
    workerPc,      \* RunConcurrent: [i] position of item i's goroutine
    errCh,         \* RunConcurrent: errCh
    errChClosed,   \* RunConcurrent: errCh is closed
    errs,          \* RunConcurrent: errs
    fanPc,         \* RunConcurrent: position of the caller
    reqPath,       \* request objects: the run path that built the factory
    reqNext,       \* request objects: clones allocated so far
    reqHeld,       \* request objects: [c] what factory() returned (line 344)
    reqUsed,       \* request objects: [c] history: objects given to DoRequest
    avgPc,         \* GetAvgClientStats: position of the call
    avgStats       \* GetAvgClientStats: the value returned

connVars == <<ctxDone, sentRequests, pumpPc, async, streams, tasks, firstErr,
              statsChan, statsClosed, colPc, colEntry, stats, logger, logChan,
              logClosed, sinkPc, rpsTokens, rpsClosed, tickersOn, resetTick,
              evenTick, burstPc, burstI, evenPc, reqWg, waitPc, launched,
              enqueued, dropped, failedCalls, tokenHeld, sinceTick>>
poolVars == <<runPc, callPc, startPc>>
aggVars == <<aggClients, aggIdx, totalStats>>
newVars == <<newConf, newClients, newResult>>
fanVars == <<fnCalls, fnErr, workerPc, errCh, errChClosed, errs, fanPc>>
reqVars == <<reqPath, reqNext, reqHeld, reqUsed>>
avgVars == <<avgPc, avgStats>>
vars == <<conf, panicked, connVars, poolVars, aggVars, newVars, fanVars,
          reqVars, avgVars>>

\* Connection indices of the largest pool the model builds.
MaxClients == 2
ConnIds == 1..MaxClients
Conns == 1..conf.Clients

\* RequestStats{} (stats.go): the zero value.
ZeroStats ==
    [TotalRequests |-> 0, SuccessRequests |-> 0, FailedRequests |-> 0,
     MinLatency |-> 0, MaxLatency |-> 0, TotalLatency |-> 0, Duration |-> 0]

NoTasks == [p \in Phases |-> 0]

TaskCount(c) ==
    tasks[c]["run"] + tasks[c]["resp"] + tasks[c]["err"]
        + tasks[c]["store"] + tasks[c]["fin"]

\* streamsWg: Add(1) at dispatch, Done() in the request goroutine's defer.
StreamsWg(c) == TaskCount(c)

\* statsWg: Add(1) in NewH2Client, Done() when statsCollector returns.
StatsWg(c) == IF colPc[c] = "exit" THEN 0 ELSE 1

\* loggingWg: Add(1) in SetLogger, Done() when the logger goroutine returns.
LoggingWg(c) == IF sinkPc[c] = "recv" THEN 1 ELSE 0

\* Connection c exists and the process has not panicked.
Live(c) == ~panicked /\ c \in Conns

\* ------------------------------------------------- request pump (h2client.go)

\* DoRequestsFactoryAsync: reqWg.Add(1) and a goroutine that runs the pump.
DoRequestsFactoryAsync(c) ==
    /\ Live(c)
    /\ pumpPc[c] = "idle"
    /\ pumpPc' = [pumpPc EXCEPT ![c] = "spawned"]
    /\ async' = [async EXCEPT ![c] = TRUE]
    /\ reqWg' = [reqWg EXCEPT ![c] = @ + 1]
    /\ UNCHANGED <<conf, panicked, ctxDone, sentRequests, streams, tasks,
                   firstErr, statsChan, statsClosed, colPc, colEntry, stats,
                   logger, logChan, logClosed, sinkPc, rpsTokens, rpsClosed,
                   tickersOn, resetTick, evenTick, burstPc, burstI, evenPc,
                   waitPc, launched, enqueued, dropped, failedCalls,
                   tokenHeld, sinceTick, poolVars, aggVars, newVars, fanVars,
                   reqVars, avgVars>>

\* DoRequestsFactory entered from a goroutine that does not touch reqWg
\* (RunConcurrent's worker, or a direct call).
DoRequestsFactoryCall(c) ==
    /\ Live(c)
    /\ pumpPc[c] = "idle"
    /\ pumpPc' = [pumpPc EXCEPT ![c] = "spawned"]
    /\ UNCHANGED <<conf, panicked, ctxDone, sentRequests, async, streams,
                   tasks, firstErr, statsChan, statsClosed, colPc, colEntry,
                   stats, logger, logChan, logClosed, sinkPc, rpsTokens,
                   rpsClosed, tickersOn, resetTick, evenTick, burstPc, burstI,
                   evenPc, reqWg, waitPc, launched, enqueued, dropped,
                   failedCalls, tokenHeld, sinceTick, poolVars, aggVars,
                   newVars, fanVars, reqVars, avgVars>>

\* Lines 253-310: the channels, the tickers and the refill goroutines.
PumpSetup(c) ==
    /\ Live(c)
    /\ pumpPc[c] = "spawned"
    /\ pumpPc' = [pumpPc EXCEPT ![c] = "top"]
    /\ IF conf.Rps > 0
       THEN /\ tickersOn' = [tickersOn EXCEPT ![c] = TRUE]
            /\ burstPc' = [burstPc EXCEPT ![c] = "wait"]
            /\ evenPc' = [evenPc EXCEPT ![c] =
                             IF conf.RpsMode = RpsModeEven THEN "wait" ELSE "none"]
       ELSE UNCHANGED <<tickersOn, burstPc, evenPc>>
    /\ UNCHANGED <<conf, panicked, ctxDone, sentRequests, async, streams,
                   tasks, firstErr, statsChan, statsClosed, colPc, colEntry,
                   stats, logger, logChan, logClosed, sinkPc, rpsTokens,
                   rpsClosed, resetTick, evenTick, burstI, reqWg, waitPc,
                   launched, enqueued, dropped, failedCalls, tokenHeld,
                   sinceTick, poolVars, aggVars, newVars, fanVars, reqVars,
                   avgVars>>

\* A pump that ignores the request ceiling.
NoCeiling(c) == FALSE

\* Line 319: the count ceiling is set and reached.
CeilingReached(c) ==
    conf.Requests > 0 /\ sentRequests[c] >= conf.Requests

\* Lines 312-321: the outer select and the count check.
PumpTop(c) ==
    /\ Live(c)
    /\ pumpPc[c] = "top"
    /\ pumpPc' = [pumpPc EXCEPT ![c] =
                     IF ctxDone[c] \/ CeilingReached(c) THEN "drain"
                     ELSE IF conf.Rps > 0 THEN "token" ELSE "slot"]
    /\ UNCHANGED <<conf, panicked, ctxDone, sentRequests, async, streams,
                   tasks, firstErr, statsChan, statsClosed, colPc, colEntry,
                   stats, logger, logChan, logClosed, sinkPc, rpsTokens,
                   rpsClosed, tickersOn, resetTick, evenTick, burstPc, burstI,
                   evenPc, reqWg, waitPc, launched, enqueued, dropped,
                   failedCalls, tokenHeld, sinceTick, poolVars, aggVars,
                   newVars, fanVars, reqVars, avgVars>>

\* Lines 325-330: select { <-ctx.Done(): break loop; <-rpsTokens: }.
PumpToken(c) ==
    /\ Live(c)
    /\ pumpPc[c] = "token"
    /\ \/ /\ ctxDone[c]
          /\ pumpPc' = [pumpPc EXCEPT ![c] = "drain"]
          /\ UNCHANGED <<rpsTokens, tokenHeld>>
       \/ /\ rpsTokens[c] > 0
          /\ rpsTokens' = [rpsTokens EXCEPT ![c] = @ - 1]
          /\ tokenHeld' = [tokenHeld EXCEPT ![c] = TRUE]
          /\ pumpPc' = [pumpPc EXCEPT ![c] = "slot"]
    /\ UNCHANGED <<conf, panicked, ctxDone, sentRequests, async, streams,
                   tasks, firstErr, statsChan, statsClosed, colPc, colEntry,
                   stats, logger, logChan, logClosed, sinkPc, rpsClosed,
                   tickersOn, resetTick, evenTick, burstPc, burstI, evenPc,
                   reqWg, waitPc, launched, enqueued, dropped, failedCalls,
                   sinceTick, poolVars, aggVars, newVars, fanVars, reqVars,
                   avgVars>>

\* A slot channel without a capacity.
SlotAlwaysFree(c) == TRUE

\* streams <- struct{}{} can proceed: the buffer of capacity ConcurrentStreams
\* has room (a capacity of 0 never has, no goroutine receives before a send).
SlotFree(c) == streams[c] < conf.ConcurrentStreams

\* The model explores an unbounded run (Requests = 0) up to MaxSent requests.
WithinModel(c) == conf.Requests > 0 \/ sentRequests[c] < MaxSent

\* Lines 264, 294: the one-second refill of burst mode is in force.
BurstLimited == conf.Rps > 0 /\ conf.RpsMode = RpsModeBurst

\* Lines 336-349: the slot is taken, the counter incremented, the request
\* goroutine started.
Dispatch(c) ==
    /\ streams' = [streams EXCEPT ![c] = @ + 1]
    /\ sentRequests' = [sentRequests EXCEPT ![c] = @ + 1]
    /\ tasks' = [tasks EXCEPT ![c]["run"] = @ + 1]
    /\ launched' = [launched EXCEPT ![c] = @ + 1]
    /\ tokenHeld' = [tokenHeld EXCEPT ![c] = FALSE]
    /\ sinceTick' = [sinceTick EXCEPT
                        ![c] = IF BurstLimited THEN @ + 1 ELSE @]
    /\ pumpPc' = [pumpPc EXCEPT ![c] = "top"]

\* Lines 333-352: select { <-ctx.Done(): break loop; streams <- ...; default: }.
PumpSlot(c) ==
    /\ Live(c)
    /\ pumpPc[c] = "slot"
    /\ \/ /\ ctxDone[c]
          /\ pumpPc' = [pumpPc EXCEPT ![c] = "drain"]
          /\ UNCHANGED <<streams, sentRequests, tasks, launched, tokenHeld,
                         sinceTick>>
       \/ /\ SlotFree(c)
          /\ WithinModel(c)
          /\ Dispatch(c)
       \/ /\ ~ctxDone[c]
          /\ ~(SlotFree(c) /\ WithinModel(c))
          /\ pumpPc' = [pumpPc EXCEPT ![c] = "top"]
          /\ UNCHANGED <<streams, sentRequests, tasks, launched, tokenHeld,
                         sinceTick>>
    /\ UNCHANGED <<conf, panicked, ctxDone, async, firstErr, statsChan,
                   statsClosed, colPc, colEntry, stats, logger, logChan,
                   logClosed, sinkPc, rpsTokens, rpsClosed, tickersOn,
                   resetTick, evenTick, burstPc, burstI, evenPc, reqWg,
                   waitPc, enqueued, dropped, failedCalls, poolVars, aggVars,
                   newVars, fanVars, reqVars, avgVars>>

\* A pump that does not wait for its request tasks.
NoDrain(c) == TRUE

\* Line 355: streamsWg.Wait() returns.
Drained(c) == StreamsWg(c) = 0

\* Lines 355-356: wait for the request goroutines, record the duration.
PumpDrain(c) ==
    /\ Live(c)
    /\ pumpPc[c] = "drain"
    /\ Drained(c)
    /\ \E d \in Latencies :
          stats' = [stats EXCEPT ![c].Duration = d]
    /\ pumpPc' = [pumpPc EXCEPT ![c] = "defers"]
    /\ UNCHANGED <<conf, panicked, ctxDone, sentRequests, async, streams,
                   tasks, firstErr, statsChan, statsClosed, colPc, colEntry,
                   logger, logChan, logClosed, sinkPc, rpsTokens, rpsClosed,
                   tickersOn, resetTick, evenTick, burstPc, burstI, evenPc,
                   reqWg, waitPc, launched, enqueued, dropped, failedCalls,
                   tokenHeld, sinceTick, poolVars, aggVars, newVars, fanVars,
                   reqVars, avgVars>>

\* The deferred calls of lines 275, 268, 266 and 256, in that order: both
\* tickers stop, rpsTokens and streams are closed.  A tick already buffered in
\* a ticker's channel stays or is discarded, as the Go release decides.
PumpDefers(c) ==
    /\ Live(c)
    /\ pumpPc[c] = "defers"
    /\ pumpPc' = [pumpPc EXCEPT ![c] = "close"]
    /\ IF conf.Rps > 0
       THEN /\ tickersOn' = [tickersOn EXCEPT ![c] = FALSE]
            /\ rpsClosed' = [rpsClosed EXCEPT ![c] = TRUE]
            /\ \E r \in {0, resetTick[c]}, e \in {0, evenTick[c]} :
                  /\ resetTick' = [resetTick EXCEPT ![c] = r]
                  /\ evenTick' = [evenTick EXCEPT ![c] = e]
       ELSE UNCHANGED <<tickersOn, rpsClosed, resetTick, evenTick>>
    /\ UNCHANGED <<conf, panicked, ctxDone, sentRequests, async, streams,
                   tasks, firstErr, statsChan, statsClosed, colPc, colEntry,
                   stats, logger, logChan, logClosed, sinkPc, rpsTokens,
                   burstPc, burstI, evenPc, reqWg, waitPc, launched, enqueued,
                   dropped, failedCalls, tokenHeld, sinceTick, poolVars,
                   aggVars, newVars, fanVars, reqVars, avgVars>>

\* closeChannels (lines 105-108), deferred at line 254, then the return; the
\* async wrapper's deferred reqWg.Done() follows.
PumpClose(c) ==
    /\ Live(c)
    /\ pumpPc[c] = "close"
    /\ pumpPc' = [pumpPc EXCEPT ![c] = "done"]
    /\ statsClosed' = [statsClosed EXCEPT ![c] = TRUE]
    /\ logClosed' = [logClosed EXCEPT ![c] = TRUE]
    /\ reqWg' = [reqWg EXCEPT ![c] = IF async[c] THEN @ - 1 ELSE @]
    /\ UNCHANGED <<conf, panicked, ctxDone, sentRequests, async, streams,
                   tasks, firstErr, statsChan, colPc, colEntry, stats, logger,
                   logChan, sinkPc, rpsTokens, rpsClosed, tickersOn,
                   resetTick, evenTick, burstPc, burstI, evenPc, waitPc,
                   launched, enqueued, dropped, failedCalls, tokenHeld,
                   sinceTick, poolVars, aggVars, newVars, fanVars, reqVars,
                   avgVars>>

\* ------------------------------------------- request goroutine (lines 339-349)

\* A test without the lower bound.
Below400(status) == status < 400

\* statsCollector's test at line 74.
IsSuccess(status) == status >= 200 /\ status < 400

\* Line 211: h.client.Do(req) returns.
TransportReturn(c) ==
    /\ Live(c)
    /\ tasks[c]["run"] > 0
    /\ tasks' = [tasks EXCEPT ![c]["run"] = @ - 1, ![c]["resp"] = @ + 1]
    /\ UNCHANGED <<conf, panicked, ctxDone, sentRequests, pumpPc, async,
                   streams, firstErr, statsChan, statsClosed, colPc, colEntry,
                   stats, logger, logChan, logClosed, sinkPc, rpsTokens,
                   rpsClosed, tickersOn, resetTick, evenTick, burstPc, burstI,
                   evenPc, reqWg, waitPc, launched, enqueued, dropped,
                   failedCalls, tokenHeld, sinceTick, poolVars, aggVars,
                   newVars, fanVars, reqVars, avgVars>>

\* A send on a closed channel panics, also inside a select with a default.
SendPanics(c) == statsClosed[c] \/ (logger[c] /\ logClosed[c])

\* A statistics queue without a capacity.
AlwaysAccepts(c) == TRUE

\* logStats (lines 96-103): a non-blocking send, dropped when the queue is full.
StatsAccepts(c) == Len(statsChan[c]) < StatsChanCap

\* logResult (lines 194-207): the same for the log line, when a logger is set.
LogAccepts(c) == logger[c] /\ logChan[c] < LogChanCap

\* A goroutine that reports while its transport call is still running.
ReportsEarly(c) == tasks[c]["run"] > 0 \/ tasks[c]["resp"] > 0

\* Lines 211-215, 222: logResult is called after h.client.Do has returned.
HasOutcome(c) == tasks[c]["resp"] > 0

\* Lines 212-223 with logResult and logStats: the outcome (status 0 when the
\* transport call failed) is offered to both queues; DoRequest returns an
\* error exactly when the status is 0.
Report(c) ==
    /\ Live(c)
    /\ HasOutcome(c)
    /\ IF SendPanics(c)
       THEN /\ panicked' = TRUE
            /\ UNCHANGED <<tasks, statsChan, enqueued, dropped, logChan,
                           failedCalls>>
       ELSE \E status \in Statuses, latency \in Latencies :
               /\ failedCalls' = [failedCalls EXCEPT
                                     ![c] = IF status = 0 THEN @ + 1 ELSE @]
               /\ tasks' = [tasks EXCEPT
                               ![c]["resp"] = @ - 1,
                               ![c][IF status = 0 THEN "err" ELSE "fin"] = @ + 1]
               /\ IF StatsAccepts(c)
                  THEN /\ statsChan' = [statsChan EXCEPT
                                           ![c] = Append(@, <<status, latency>>)]
                       /\ enqueued' = [enqueued EXCEPT ![c] = @ + 1]
                       /\ UNCHANGED dropped
                  ELSE /\ dropped' = [dropped EXCEPT ![c] = @ + 1]
                       /\ UNCHANGED <<statsChan, enqueued>>
               /\ logChan' = [logChan EXCEPT
                                 ![c] = IF LogAccepts(c) THEN @ + 1 ELSE @]
               /\ UNCHANGED panicked
    /\ UNCHANGED <<conf, ctxDone, sentRequests, pumpPc, async, streams,
                   firstErr, statsClosed, colPc, colEntry, stats, logger,
                   logClosed, sinkPc, rpsTokens, rpsClosed, tickersOn,
                   resetTick, evenTick, burstPc, burstI, evenPc, reqWg,
                   waitPc, launched, tokenHeld, sinceTick, poolVars, aggVars,
                   newVars, fanVars, reqVars, avgVars>>

\* Line 346: err != nil && firstErr.Load() == nil.
ErrLoad(c) ==
    /\ Live(c)
    /\ tasks[c]["err"] > 0
    /\ tasks' = [tasks EXCEPT
                    ![c]["err"] = @ - 1,
                    ![c][IF firstErr[c] THEN "fin" ELSE "store"] = @ + 1]
    /\ UNCHANGED <<conf, panicked, ctxDone, sentRequests, pumpPc, async,
                   streams, firstErr, statsChan, statsClosed, colPc, colEntry,
                   stats, logger, logChan, logClosed, sinkPc, rpsTokens,
                   rpsClosed, tickersOn, resetTick, evenTick, burstPc, burstI,
                   evenPc, reqWg, waitPc, launched, enqueued, dropped,
                   failedCalls, tokenHeld, sinceTick, poolVars, aggVars,
                   newVars, fanVars, reqVars, avgVars>>

\* Line 347: firstErr.Store(err).
ErrStore(c) ==
    /\ Live(c)
    /\ tasks[c]["store"] > 0
    /\ tasks' = [tasks EXCEPT ![c]["store"] = @ - 1, ![c]["fin"] = @ + 1]
    /\ firstErr' = [firstErr EXCEPT ![c] = TRUE]
    /\ UNCHANGED <<conf, panicked, ctxDone, sentRequests, pumpPc, async,
                   streams, statsChan, statsClosed, colPc, colEntry, stats,
                   logger, logChan, logClosed, sinkPc, rpsTokens, rpsClosed,
                   tickersOn, resetTick, evenTick, burstPc, burstI, evenPc,
                   reqWg, waitPc, launched, enqueued, dropped, failedCalls,
                   tokenHeld, sinceTick, poolVars, aggVars, newVars, fanVars,
                   reqVars, avgVars>>

\* Lines 340-343, deferred: <-streams and streamsWg.Done().
Release(c) ==
    /\ Live(c)
    /\ tasks[c]["fin"] > 0
    /\ tasks' = [tasks EXCEPT ![c]["fin"] = @ - 1]
    /\ streams' = [streams EXCEPT ![c] = @ - 1]
    /\ UNCHANGED <<conf, panicked, ctxDone, sentRequests, pumpPc, async,
                   firstErr, statsChan, statsClosed, colPc, colEntry, stats,
                   logger, logChan, logClosed, sinkPc, rpsTokens, rpsClosed,
                   tickersOn, resetTick, evenTick, burstPc, burstI, evenPc,
                   reqWg, waitPc, launched, enqueued, dropped, failedCalls,
                   tokenHeld, sinceTick, poolVars, aggVars, newVars, fanVars,
                   reqVars, avgVars>>

\* ----------------------------------------- statsCollector (lines 71-93)

\* Lines 72-73: receive an entry and count it; the range loop ends when the
\* channel is closed and empty.
\* A range loop that ends on an empty queue.
EndsWhenEmpty(c) == TRUE

\* Line 72: the range loop ends only on a closed (and empty) channel.
RangeEnds(c) == statsClosed[c]

ColRecv(c) ==
    /\ Live(c)
    /\ colPc[c] = "recv"
    /\ IF statsChan[c] # <<>>
       THEN /\ colEntry' = [colEntry EXCEPT ![c] = Head(statsChan[c])]
            /\ statsChan' = [statsChan EXCEPT ![c] = Tail(@)]
            /\ stats' = [stats EXCEPT ![c].TotalRequests = @ + 1]
            /\ colPc' = [colPc EXCEPT ![c] = "apply"]
       ELSE /\ RangeEnds(c)
            /\ colPc' = [colPc EXCEPT ![c] = "exit"]
            /\ UNCHANGED <<colEntry, statsChan, stats>>
    /\ UNCHANGED <<conf, panicked, ctxDone, sentRequests, pumpPc, async,
                   streams, tasks, firstErr, statsClosed, logger, logChan,
                   logClosed, sinkPc, rpsTokens, rpsClosed, tickersOn,
                   resetTick, evenTick, burstPc, burstI, evenPc, reqWg,
                   waitPc, launched, enqueued, dropped, failedCalls,
                   tokenHeld, sinceTick, poolVars, aggVars, newVars, fanVars,
                   reqVars, avgVars>>

\* Lines 80-91.
LatencyUpdate(s, latency) ==
    [s EXCEPT
        !.MinLatency = IF s.TotalRequests = 1 \/ latency < @ THEN latency ELSE @,
        !.MaxLatency = IF s.TotalRequests = 1 \/ latency > @ THEN latency ELSE @,
        !.TotalLatency = @ + latency]

\* Lines 74-78.
CountUpdate(s, status) ==
    IF IsSuccess(status)
    THEN [s EXCEPT !.SuccessRequests = @ + 1]
    ELSE [s EXCEPT !.FailedRequests = @ + 1]

\* Lines 74-91: the rest of the loop body.
ColApply(c) ==
    /\ Live(c)
    /\ colPc[c] = "apply"
    /\ stats' = [stats EXCEPT ![c] =
                    LatencyUpdate(CountUpdate(@, colEntry[c][1]), colEntry[c][2])]
    /\ colEntry' = [colEntry EXCEPT ![c] = <<>>]
    /\ colPc' = [colPc EXCEPT ![c] = "recv"]
/\ UNCHANGED <<conf, panicked, ctxDone, sentRequests, pumpPc, async, streams,
               tasks, firstErr, statsChan, statsClosed, logger, logChan,
               logClosed, sinkPc, rpsTokens, rpsClosed, tickersOn, resetTick,
               evenTick, burstPc, burstI, evenPc, reqWg, waitPc, launched,
               enqueued, dropped, failedCalls, tokenHeld, sinceTick, poolVars,
               aggVars, newVars, fanVars, reqVars, avgVars>>

\* ------------------------------------ logger goroutine (lines 179-186)
SinkRecv(c) ==
    /\ Live(c)
    /\ sinkPc[c] = "recv"
    /\ IF logChan[c] > 0
       THEN /\ logChan' = [logChan EXCEPT ![c] = @ - 1]
            /\ UNCHANGED sinkPc
       ELSE /\ logClosed[c]
            /\ sinkPc' = [sinkPc EXCEPT ![c] = "exit"]
            /\ UNCHANGED logChan
    /\ UNCHANGED <<conf, panicked, ctxDone, sentRequests, pumpPc, async,
                   streams, tasks, firstErr, statsChan, statsClosed, colPc,
                   colEntry, stats, logger, logClosed, rpsTokens, rpsClosed,
                   tickersOn, resetTick, evenTick, burstPc, burstI, evenPc,
                   reqWg, waitPc, launched, enqueued, dropped, failedCalls,
                   tokenHeld, sinceTick, poolVars, aggVars, newVars, fanVars,
                   reqVars, avgVars>>

\* ------------------------------------------ rate limiter (lines 264-308)

\* A one-second goroutine that fills under either policy.
AlwaysFills == TRUE

\* Line 294: only burst mode fills on the one-second tick.
FillsOnReset == conf.RpsMode = RpsModeBurst

\* rpsResetTicker fires.  A goroutine blocked at line 293 receives the tick at
\* once (only burst mode then fills, line 294); while it is inside the fill
\* loop the tick stays in the ticker's channel, which holds at most one; a
\* tick that finds the channel full, or the goroutine gone, is lost.
TickReset(c) ==
    /\ Live(c)
    /\ tickersOn[c]
    /\ \/ /\ burstPc[c] = "wait"
          /\ resetTick[c] = 0
          /\ burstPc' = [burstPc EXCEPT ![c] =
                            IF FillsOnReset THEN "fill" ELSE "wait"]
          /\ UNCHANGED resetTick
       \/ /\ burstPc[c] = "fill"
          /\ resetTick[c] = 0
          /\ resetTick' = [resetTick EXCEPT ![c] = 1]
          /\ UNCHANGED burstPc
       \/ /\ resetTick[c] = 1 \/ burstPc[c] = "ret"
          /\ UNCHANGED <<resetTick, burstPc>>
    /\ sinceTick' = [sinceTick EXCEPT ![c] = 0]
    /\ UNCHANGED <<conf, panicked, ctxDone, sentRequests, pumpPc, async,
                   streams, tasks, firstErr, statsChan, statsClosed, colPc,
                   colEntry, stats, logger, logChan, logClosed, sinkPc,
                   rpsTokens, rpsClosed, tickersOn, evenTick, burstI, evenPc,
                   reqWg, waitPc, launched, enqueued, dropped, failedCalls,
                   tokenHeld, poolVars, aggVars, newVars, fanVars, reqVars,
                   avgVars>>

\* evenTicker fires (even mode only): the same for the goroutine of line 278.
TickEven(c) ==
    /\ Live(c)
    /\ tickersOn[c]
    /\ \/ /\ evenPc[c] = "wait"
          /\ evenTick[c] = 0
          /\ evenPc' = [evenPc EXCEPT ![c] = "select"]
          /\ UNCHANGED evenTick
       \/ /\ evenPc[c] = "select"
          /\ evenTick[c] = 0
          /\ evenTick' = [evenTick EXCEPT ![c] = 1]
          /\ UNCHANGED evenPc
    /\ UNCHANGED <<conf, panicked, ctxDone, sentRequests, pumpPc, async,
                   streams, tasks, firstErr, statsChan, statsClosed, colPc,
                   colEntry, stats, logger, logChan, logClosed, sinkPc,
                   rpsTokens, rpsClosed, tickersOn, resetTick, burstPc,
                   burstI, reqWg, waitPc, launched, enqueued, dropped,
                   failedCalls, tokenHeld, sinceTick, poolVars, aggVars,
                   newVars, fanVars, reqVars, avgVars>>

\* Line 293: the one-second goroutine receives a buffered tick.
BurstRecv(c) ==
    /\ Live(c)
    /\ burstPc[c] = "wait"
    /\ resetTick[c] = 1
    /\ resetTick' = [resetTick EXCEPT ![c] = 0]
    /\ burstPc' = [burstPc EXCEPT ![c] =
                      IF FillsOnReset THEN "fill" ELSE "wait"]
    /\ UNCHANGED <<conf, panicked, ctxDone, sentRequests, pumpPc, async,
                   streams, tasks, firstErr, statsChan, statsClosed, colPc,
                   colEntry, stats, logger, logChan, logClosed, sinkPc,
                   rpsTokens, rpsClosed, tickersOn, evenTick, burstI, evenPc,
                   reqWg, waitPc, launched, enqueued, dropped, failedCalls,
                   tokenHeld, sinceTick, poolVars, aggVars, newVars, fanVars,
                   reqVars, avgVars>>

\* A reservoir without a capacity.
AlwaysRoom(c) == TRUE

\* rpsTokens <- struct{}{} can proceed without panicking.
TokenRoom(c) == rpsTokens[c] < conf.Rps

\* A fill loop without its bound.
NeverLast(c) == FALSE

\* Line 296: after i++ the loop condition i < h.Conf.Rps fails.
LastFill(c) == burstI[c] + 1 >= conf.Rps

\* Lines 296-304, one iteration: select { <-ctx.Done(): return;
\* rpsTokens <- ...; default: }.  The send case of a closed channel panics
\* when the select picks it.
BurstFill(c) ==
    /\ Live(c)
    /\ burstPc[c] = "fill"
    /\ \/ /\ ctxDone[c]
          /\ burstPc' = [burstPc EXCEPT ![c] = "ret"]
          /\ UNCHANGED <<panicked, rpsTokens, burstI>>
       \/ /\ rpsClosed[c]
          /\ panicked' = TRUE
          /\ UNCHANGED <<burstPc, rpsTokens, burstI>>
       \/ /\ ~rpsClosed[c]
          /\ TokenRoom(c) \/ ~ctxDone[c]
          /\ rpsTokens' = [rpsTokens EXCEPT
                              ![c] = IF TokenRoom(c) THEN @ + 1 ELSE @]
          /\ IF LastFill(c)
             THEN /\ burstI' = [burstI EXCEPT ![c] = 0]
                  /\ burstPc' = [burstPc EXCEPT ![c] = "wait"]
             ELSE /\ burstI' = [burstI EXCEPT ![c] = @ + 1]
                  /\ UNCHANGED burstPc
          /\ UNCHANGED panicked
    /\ UNCHANGED <<conf, ctxDone, sentRequests, pumpPc, async, streams, tasks,
                   firstErr, statsChan, statsClosed, colPc, colEntry, stats,
                   logger, logChan, logClosed, sinkPc, rpsClosed, tickersOn,
                   resetTick, evenTick, evenPc, reqWg, waitPc, launched,
                   enqueued, dropped, failedCalls, tokenHeld, sinceTick,
                   poolVars, aggVars, newVars, fanVars, reqVars, avgVars>>

\* Line 279: the even goroutine receives a buffered tick.
EvenRecv(c) ==
    /\ Live(c)
    /\ evenPc[c] = "wait"
    /\ evenTick[c] = 1
    /\ evenTick' = [evenTick EXCEPT ![c] = 0]
    /\ evenPc' = [evenPc EXCEPT ![c] = "select"]
    /\ UNCHANGED <<conf, panicked, ctxDone, sentRequests, pumpPc, async,
                   streams, tasks, firstErr, statsChan, statsClosed, colPc,
                   colEntry, stats, logger, logChan, logClosed, sinkPc,
                   rpsTokens, rpsClosed, tickersOn, resetTick, burstPc,
                   burstI, reqWg, waitPc, launched, enqueued, dropped,
                   failedCalls, tokenHeld, sinceTick, poolVars, aggVars,
                   newVars, fanVars, reqVars, avgVars>>

\* Lines 280-286: the same select, once per tick.
EvenFill(c) ==
    /\ Live(c)
    /\ evenPc[c] = "select"
    /\ \/ /\ ctxDone[c]
          /\ evenPc' = [evenPc EXCEPT ![c] = "ret"]
          /\ UNCHANGED <<panicked, rpsTokens>>
       \/ /\ rpsClosed[c]
          /\ panicked' = TRUE
          /\ UNCHANGED <<evenPc, rpsTokens>>
       \/ /\ ~rpsClosed[c]
          /\ TokenRoom(c) \/ ~ctxDone[c]
          /\ rpsTokens' = [rpsTokens EXCEPT
                              ![c] = IF TokenRoom(c) THEN @ + 1 ELSE @]
          /\ evenPc' = [evenPc EXCEPT ![c] = "wait"]
          /\ UNCHANGED panicked
    /\ UNCHANGED <<conf, ctxDone, sentRequests, pumpPc, async, streams, tasks,
                   firstErr, statsChan, statsClosed, colPc, colEntry, stats,
                   logger, logChan, logClosed, sinkPc, rpsClosed, tickersOn,
                   resetTick, evenTick, burstPc, burstI, reqWg, waitPc,
                   launched, enqueued, dropped, failedCalls, tokenHeld,
                   sinceTick, poolVars, aggVars, newVars, fanVars, reqVars,
                   avgVars>>

\* ------------------------------------------ Stop and Wait (lines 110-119)

\* H2Client.Wait is entered.
WaitCall(c) ==
    /\ Live(c)
    /\ waitPc[c] \in {"none", "ret"}
    /\ waitPc' = [waitPc EXCEPT ![c] = "reqWg"]
    /\ UNCHANGED <<conf, panicked, ctxDone, sentRequests, pumpPc, async,
                   streams, tasks, firstErr, statsChan, statsClosed, colPc,
                   colEntry, stats, logger, logChan, logClosed, sinkPc,
                   rpsTokens, rpsClosed, tickersOn, resetTick, evenTick,
                   burstPc, burstI, evenPc, reqWg, launched, enqueued,
                   dropped, failedCalls, tokenHeld, sinceTick, poolVars,
                   aggVars, newVars, fanVars, reqVars, avgVars>>

\* H2Client.Stop: h.cancel(), then h.Wait().
Stop(c) ==
    /\ Live(c)
    /\ waitPc[c] \in {"none", "ret"}
    /\ ctxDone' = [ctxDone EXCEPT ![c] = TRUE]
    /\ waitPc' = [waitPc EXCEPT ![c] = "reqWg"]
    /\ UNCHANGED <<conf, panicked, sentRequests, pumpPc, async, streams,
                   tasks, firstErr, statsChan, statsClosed, colPc, colEntry,
                   stats, logger, logChan, logClosed, sinkPc, rpsTokens,
                   rpsClosed, tickersOn, resetTick, evenTick, burstPc, burstI,
                   evenPc, reqWg, launched, enqueued, dropped, failedCalls,
                   tokenHeld, sinceTick, poolVars, aggVars, newVars, fanVars,
                   reqVars, avgVars>>

\* Line 116: h.reqWg.Wait() returns.
WaitReq(c) ==
    /\ Live(c)
    /\ waitPc[c] = "reqWg"
    /\ reqWg[c] = 0
    /\ waitPc' = [waitPc EXCEPT ![c] = "loggingWg"]
    /\ UNCHANGED <<conf, panicked, ctxDone, sentRequests, pumpPc, async,
                   streams, tasks, firstErr, statsChan, statsClosed, colPc,
                   colEntry, stats, logger, logChan, logClosed, sinkPc,
                   rpsTokens, rpsClosed, tickersOn, resetTick, evenTick,
                   burstPc, burstI, evenPc, reqWg, launched, enqueued,
                   dropped, failedCalls, tokenHeld, sinceTick, poolVars,
                   aggVars, newVars, fanVars, reqVars, avgVars>>

\* Line 117: h.loggingWg.Wait() returns.
WaitLogging(c) ==
    /\ Live(c)
    /\ waitPc[c] = "loggingWg"
    /\ LoggingWg(c) = 0
    /\ waitPc' = [waitPc EXCEPT ![c] = "statsWg"]
    /\ UNCHANGED <<conf, panicked, ctxDone, sentRequests, pumpPc, async,
                   streams, tasks, firstErr, statsChan, statsClosed, colPc,
                   colEntry, stats, logger, logChan, logClosed, sinkPc,
                   rpsTokens, rpsClosed, tickersOn, resetTick, evenTick,
                   burstPc, burstI, evenPc, reqWg, launched, enqueued,
                   dropped, failedCalls, tokenHeld, sinceTick, poolVars,
                   aggVars, newVars, fanVars, reqVars, avgVars>>

\* Line 118: h.statsWg.Wait() returns, and Wait with it.
WaitStats(c) ==
    /\ Live(c)
    /\ waitPc[c] = "statsWg"
    /\ StatsWg(c) = 0
    /\ waitPc' = [waitPc EXCEPT ![c] = "ret"]
    /\ UNCHANGED <<conf, panicked, ctxDone, sentRequests, pumpPc, async,
                   streams, tasks, firstErr, statsChan, statsClosed, colPc,
                   colEntry, stats, logger, logChan, logClosed, sinkPc,
                   rpsTokens, rpsClosed, tickersOn, resetTick, evenTick,
                   burstPc, burstI, evenPc, reqWg, launched, enqueued,
                   dropped, failedCalls, tokenHeld, sinceTick, poolVars,
                   aggVars, newVars, fanVars, reqVars, avgVars>>

\* ------------------------------------------------------- specifications

Modes == {RpsModeBurst, RpsModeEven}

\* The parts of the state a specification does not use.
AggIdle == aggClients = <<>> /\ aggIdx = 0 /\ totalStats = ZeroStats
NewIdle == newConf = <<>> /\ newClients = <<>> /\ newResult = "none"
FanIdle ==
    /\ fnCalls = <<>> /\ fnErr = <<>> /\ workerPc = <<>> /\ errCh = <<>>
    /\ errChClosed = FALSE /\ errs = <<>> /\ fanPc = "none"

ReqIdle ==
    /\ reqPath = "none" /\ reqNext = 0 /\ reqHeld = <<>> /\ reqUsed = <<>>
    /\ avgPc = "none" /\ avgStats = ZeroStats

\* The state NewH2Client leaves (lines 40-69), SetLogger applied where a
\* logger is installed (lines 164-188): the collector and the logger
\* goroutine are running, nothing is sent.
ConnState(cf, lg) ==
    /\ conf = cf
    /\ panicked = FALSE
    /\ ctxDone = [c \in 1..cf.Clients |-> FALSE]
    /\ sentRequests = [c \in 1..cf.Clients |-> 0]
    /\ pumpPc = [c \in 1..cf.Clients |-> "idle"]
    /\ async = [c \in 1..cf.Clients |-> FALSE]
    /\ streams = [c \in 1..cf.Clients |-> 0]
    /\ tasks = [c \in 1..cf.Clients |-> NoTasks]
    /\ firstErr = [c \in 1..cf.Clients |-> FALSE]
    /\ statsChan = [c \in 1..cf.Clients |-> <<>>]
    /\ statsClosed = [c \in 1..cf.Clients |-> FALSE]
    /\ colPc = [c \in 1..cf.Clients |-> "recv"]
    /\ colEntry = [c \in 1..cf.Clients |-> <<>>]
    /\ stats = [c \in 1..cf.Clients |-> ZeroStats]
    /\ logger = [c \in 1..cf.Clients |-> lg]
    /\ logChan = [c \in 1..cf.Clients |-> 0]
    /\ logClosed = [c \in 1..cf.Clients |-> FALSE]
    /\ sinkPc = [c \in 1..cf.Clients |-> IF lg THEN "recv" ELSE "none"]
    /\ rpsTokens = [c \in 1..cf.Clients |-> 0]
    /\ rpsClosed = [c \in 1..cf.Clients |-> FALSE]
    /\ tickersOn = [c \in 1..cf.Clients |-> FALSE]
    /\ resetTick = [c \in 1..cf.Clients |-> 0]
    /\ evenTick = [c \in 1..cf.Clients |-> 0]
    /\ burstPc = [c \in 1..cf.Clients |-> "none"]
    /\ burstI = [c \in 1..cf.Clients |-> 0]
    /\ evenPc = [c \in 1..cf.Clients |-> "none"]
    /\ reqWg = [c \in 1..cf.Clients |-> 0]
    /\ waitPc = [c \in 1..cf.Clients |-> "none"]
    /\ launched = [c \in 1..cf.Clients |-> 0]
    /\ enqueued = [c \in 1..cf.Clients |-> 0]
    /\ dropped = [c \in 1..cf.Clients |-> 0]
    /\ failedCalls = [c \in 1..cf.Clients |-> 0]
    /\ tokenHeld = [c \in 1..cf.Clients |-> FALSE]
    /\ sinceTick = [c \in 1..cf.Clients |-> 0]
    /\ runPc = "idle"
    /\ callPc = "idle"

ConnInit(cf, lg) ==
    /\ ConnState(cf, lg)
    /\ startPc = "none"
    /\ AggIdle /\ NewIdle /\ FanIdle /\ ReqIdle

\* -------------------------------- pool statistics (h2loadClient.go 137-171)

\* GetSentRequests, lines 137-143: the loop over h.Clients.
RECURSIVE SentUpTo(_)
SentUpTo(n) == IF n = 0 THEN 0 ELSE SentUpTo(n - 1) + sentRequests[n]

GetSentRequests == SentUpTo(conf.Clients)

\* An iteration whose minimum rule lacks the comparison of line 157.
AddLastMin(total, s) ==
    [TotalRequests |-> total.TotalRequests + s.TotalRequests,
     SuccessRequests |-> total.SuccessRequests + s.SuccessRequests,
     FailedRequests |-> total.FailedRequests + s.FailedRequests,
     TotalLatency |-> total.TotalLatency + s.TotalLatency,
     MinLatency |-> s.MinLatency,
     MaxLatency |->
         IF s.MaxLatency > total.MaxLatency
         THEN s.MaxLatency ELSE total.MaxLatency,
     Duration |->
         IF s.Duration > total.Duration THEN s.Duration ELSE total.Duration]

\* An iteration whose minimum rule lacks the test stats.MinLatency > 0.
AddAnyMin(total, s) ==
    [TotalRequests |-> total.TotalRequests + s.TotalRequests,
     SuccessRequests |-> total.SuccessRequests + s.SuccessRequests,
     FailedRequests |-> total.FailedRequests + s.FailedRequests,
     TotalLatency |-> total.TotalLatency + s.TotalLatency,
     MinLatency |->
         IF total.MinLatency = 0 \/ s.MinLatency < total.MinLatency
         THEN s.MinLatency ELSE total.MinLatency,
     MaxLatency |->
         IF s.MaxLatency > total.MaxLatency
         THEN s.MaxLatency ELSE total.MaxLatency,
     Duration |->
         IF s.Duration > total.Duration THEN s.Duration ELSE total.Duration]

\* One iteration of GetTotalStats' loop, lines 150-167.
AddClientStats(total, s) ==
    [TotalRequests |-> total.TotalRequests + s.TotalRequests,
     SuccessRequests |-> total.SuccessRequests + s.SuccessRequests,
     FailedRequests |-> total.FailedRequests + s.FailedRequests,
     TotalLatency |-> total.TotalLatency + s.TotalLatency,
     MinLatency |->
         IF total.MinLatency = 0
             \/ (s.MinLatency > 0 /\ s.MinLatency < total.MinLatency)
         THEN s.MinLatency ELSE total.MinLatency,
     MaxLatency |->
         IF s.MaxLatency > total.MaxLatency
         THEN s.MaxLatency ELSE total.MaxLatency,
     Duration |->
         IF s.Duration > total.Duration THEN s.Duration ELSE total.Duration]

\* GetTotalStats, lines 146-171, over the first n clients of a slice.
RECURSIVE TotalUpTo(_, _)
TotalUpTo(clientStats, n) ==
    IF n = 0 THEN ZeroStats
    ELSE AddClientStats(TotalUpTo(clientStats, n - 1), clientStats[n])

GetTotalStats(clientStats) == TotalUpTo(clientStats, Len(clientStats))

\* ------------------------------------ pool lifecycle (h2loadClient.go 77-108)

\* Run -> RunRequests -> RunRequestsFactory -> RunConcurrent: one goroutine
\* per client, each calling DoRequestsFactory.
PoolRun ==
    /\ ~panicked
    /\ runPc = "idle"
    /\ runPc' = "fan"
    /\ pumpPc' = [c \in Conns |-> "spawned"]
/\ UNCHANGED <<conf, panicked, ctxDone, sentRequests, async, streams, tasks,
               firstErr, statsChan, statsClosed, colPc, colEntry, stats,
               logger, logChan, logClosed, sinkPc, rpsTokens, rpsClosed,
               tickersOn, resetTick, evenTick, burstPc, burstI, evenPc, reqWg,
               waitPc, launched, enqueued, dropped, failedCalls, tokenHeld,
               sinceTick, callPc, startPc, aggVars, newVars, fanVars, reqVars,
               avgVars>>

\* RunConcurrent returns once every worker has: Run returns.
PoolRunReturn ==
    /\ ~panicked
    /\ runPc = "fan"
    /\ \A c \in Conns : pumpPc[c] = "done"
    /\ runPc' = "ret"
/\ UNCHANGED <<conf, panicked, connVars, callPc, startPc, aggVars, newVars,
               fanVars, reqVars, avgVars>>

\* Stop, lines 96-101: one goroutine per client, each calling c.Stop().
PoolStop ==
    /\ ~panicked
    /\ callPc = "idle"
    /\ callPc' = "stop"
/\ UNCHANGED <<conf, panicked, connVars, runPc, startPc, aggVars, newVars,
               fanVars, reqVars, avgVars>>

PoolStopWorker(c) ==
    /\ Live(c)
    /\ callPc = "stop"
    /\ waitPc[c] = "none"
    /\ Stop(c)

PoolStopReturn ==
    /\ ~panicked
    /\ callPc = "stop"
    /\ \A c \in Conns : waitPc[c] = "ret"
    /\ callPc' = "stopped"
    /\ waitPc' = [c \in Conns |-> "none"]
/\ UNCHANGED <<conf, panicked, ctxDone, sentRequests, pumpPc, async, streams,
               tasks, firstErr, statsChan, statsClosed, colPc, colEntry,
               stats, logger, logChan, logClosed, sinkPc, rpsTokens,
               rpsClosed, tickersOn, resetTick, evenTick, burstPc, burstI,
               evenPc, reqWg, launched, enqueued, dropped, failedCalls,
               tokenHeld, sinceTick, runPc, startPc, aggVars, newVars,
               fanVars, reqVars, avgVars>>

\* Wait, lines 103-108: one goroutine per client, each calling c.Wait().
PoolWait ==
    /\ ~panicked
    /\ callPc \in {"idle", "stopped"}
    /\ callPc' = "wait"
/\ UNCHANGED <<conf, panicked, connVars, runPc, startPc, aggVars, newVars,
               fanVars, reqVars, avgVars>>

PoolWaitWorker(c) ==
    /\ Live(c)
    /\ callPc = "wait"
    /\ waitPc[c] = "none"
    /\ WaitCall(c)

PoolWaitReturn ==
    /\ ~panicked
    /\ callPc = "wait"
    /\ \A c \in Conns : waitPc[c] = "ret"
    /\ callPc' = "waited"
/\ UNCHANGED <<conf, panicked, connVars, runPc, startPc, aggVars, newVars,
               fanVars, reqVars, avgVars>>

\* ------------------------------------------------------- specifications

\* The goroutine running DoRequestsFactory.
PumpStep(c) ==
    \/ PumpSetup(c) \/ PumpTop(c) \/ PumpSlot(c)
    \/ PumpDrain(c) \/ PumpDefers(c) \/ PumpClose(c)

\* The request goroutines of lines 339-349.
TaskStep(c) ==
    \/ TransportReturn(c) \/ Report(c) \/ ErrLoad(c) \/ ErrStore(c)
    \/ Release(c)

\* The statsCollector goroutine.
CollectorStep(c) == ColRecv(c) \/ ColApply(c)

\* A caller inside Wait.
WaitStep(c) == WaitReq(c) \/ WaitLogging(c) \/ WaitStats(c)

\* The goroutines of one connection: the pump with its request goroutines,
\* the collector and a caller inside Wait.
CoreStep(c) ==
    \/ PumpStep(c) \/ TaskStep(c) \/ CollectorStep(c) \/ WaitStep(c)

\* The rate limiter: the tickers, the refill goroutines, the pump's token wait.
RateStep(c) ==
    \/ PumpToken(c)
    \/ TickReset(c) \/ TickEven(c) \/ BurstRecv(c) \/ BurstFill(c)
    \/ EvenRecv(c) \/ EvenFill(c)

Conf(r, s, p, m, n) ==
    [Requests |-> r, ConcurrentStreams |-> s, Rps |-> p, RpsMode |-> m,
     Clients |-> n]

\* One connection used through the H2Client methods, under the
\* configurations within the bounds that Validate accepts.  Runs with rate
\* limiting are explored without a logger and up to MaxRateRequests requests
\* and MaxRateStreams streams.
Init ==
    \E r \in 0..MaxRequests, s \in 0..MaxStreams, p \in 0..MaxRps,
       m \in Modes, lg \in BOOLEAN :
        /\ p = 0 => m = RpsModeBurst
        /\ p > 0 => ~lg /\ r <= MaxRateRequests /\ s <= MaxRateStreams
        /\ ConnInit(Conf(r, s, p, m, 1), lg)

Next ==
    \E c \in ConnIds :
        \/ DoRequestsFactoryAsync(c) \/ DoRequestsFactoryCall(c)
        \/ Stop(c) \/ WaitCall(c)
        \/ CoreStep(c) \/ SinkRecv(c) \/ RateStep(c)

Spec == Init /\ [][Next]_vars

\* A pool driven through H2loadClient: Run, Stop and Wait, each at any time.
\* A pool of one connection runs under the rate-limited configurations too;
\* larger pools run count-bounded and without rate limiting.
InitPool ==
    \E r \in 0..MaxRateRequests, s \in 0..MaxRateStreams, p \in 0..MaxRps,
       m \in Modes, n \in 1..MaxClients :
        /\ p = 0 => m = RpsModeBurst
        /\ n > 1 => p = 0 /\ r > 0 /\ s > 0
        /\ ConnInit(Conf(r, s, p, m, n), FALSE)

NextPool ==
    \/ PoolRun \/ PoolRunReturn
    \/ PoolStop \/ PoolStopReturn
    \/ PoolWait \/ PoolWaitReturn
    \/ \E c \in ConnIds :
          \/ PoolStopWorker(c) \/ PoolWaitWorker(c)
          \/ CoreStep(c) \/ RateStep(c)

SpecPool == InitPool /\ [][NextPool]_vars

\* A count-bounded run that is never stopped, without rate limiting, under
\* a scheduler that lets every goroutine that can run do so: the pump, the
\* request goroutines (whose transport calls all return) and the collector.
InitCount ==
    \E r \in 1..MaxRequests, s \in 0..MaxStreams :
        ConnInit(Conf(r, s, 0, RpsModeBurst, 1), FALSE)

NextCount ==
    \E c \in ConnIds :
        \/ DoRequestsFactoryCall(c) \/ WaitCall(c) \/ CoreStep(c)

FairCount ==
    \A c \in ConnIds :
        /\ WF_vars(DoRequestsFactoryCall(c))
        /\ WF_vars(PumpStep(c))
        /\ WF_vars(TaskStep(c))
        /\ WF_vars(CollectorStep(c))

SpecCount == InitCount /\ [][NextCount]_vars /\ FairCount


\* ------------------------------------------- GetTotalStats as a computation

\* No connection exists: the specifications below run functions that take
\* their whole input as arguments.
NoPool ==
    /\ ConnState(Conf(0, 0, 0, RpsModeBurst, 0), FALSE)
    /\ startPc = "none"

MaxAggClients == 3
MaxAggOutcomes == 2
MaxAggLat == 3
MaxDur == 1

\* statsCollector's loop body (lines 72-92) applied to one entry.
ApplyEntry(s, entry) ==
    LatencyUpdate(
        CountUpdate([s EXCEPT !.TotalRequests = @ + 1], entry[1]), entry[2])

\* The statistics of a connection whose collector has applied the entries
\* of a queue, in order, and whose pump recorded duration d (0: not yet).
RECURSIVE StatsAfter(_, _)
StatsAfter(entries, d) ==
    IF entries = <<>> THEN [ZeroStats EXCEPT !.Duration = d]
    ELSE ApplyEntry(StatsAfter(SubSeq(entries, 1, Len(entries) - 1), d),
                    entries[Len(entries)])

AggEntries == {200, 404} \X (1..MaxAggLat)
AggQueues == UNION {[1..k -> AggEntries] : k \in 0..MaxAggOutcomes}
ClientStatsSet == {StatsAfter(q, d) : q \in AggQueues, d \in 0..MaxDur}

InitAgg ==
    /\ NoPool /\ NewIdle /\ FanIdle /\ ReqIdle
    /\ \E n \in 1..MaxAggClients : aggClients \in [1..n -> ClientStatsSet]
    /\ aggIdx = 0
    /\ totalStats = ZeroStats

\* One iteration of the loop of lines 149-168.
AggStep ==
    /\ aggIdx < Len(aggClients)
    /\ totalStats' = AddClientStats(totalStats, aggClients[aggIdx + 1])
    /\ aggIdx' = aggIdx + 1
/\ UNCHANGED <<conf, panicked, connVars, poolVars, aggClients, newVars,
               fanVars, reqVars, avgVars>>

NextAgg == AggStep

SpecAgg == InitAgg /\ [][NextAgg]_vars


\* ------------------------------- NewH2loadClient (h2loadClient.go 52-62)

\* Target URLs: the empty string, a string url.Parse rejects ("missing
\* protocol scheme"), and a well-formed one.
URLs == {"", ":", "https://host/"}
UrlParses(u) == u # ":"
FieldValues == -1..1

\* H2loadConf.Validate, h2load.go 33-56: the first failing check's error.
Validate(cf) ==
    IF cf.URL = "" THEN "URL is required"
    ELSE IF cf.Requests < 0 THEN "requests must be greater than 0"
    ELSE IF cf.Rate < 0 THEN "rate must be greater than 0"
    ELSE IF cf.RatePeriod < 0 THEN "rate period must be greater than 0"
    ELSE IF cf.Rps < 0 THEN "rps must be greater than 0"
    ELSE IF cf.ConcurrentStreams < 0
         THEN "concurrent streams must be greater than 0"
    ELSE IF cf.Clients < 0 THEN "clients must be greater than 0"
    ELSE "nil"

\* The client NewH2Client returns, h2client.go 47-68: a context that is not
\* cancelled, empty queues, zero statistics, the collector started.
NewH2Client ==
    [ctxDone |-> FALSE, sentRequests |-> 0, stats |-> ZeroStats,
     statsChan |-> <<>>, logChan |-> 0, logger |-> FALSE, colPc |-> "recv"]

InitNew ==
    /\ NoPool /\ AggIdle /\ FanIdle /\ ReqIdle
    /\ newConf \in [URL : URLs, Requests : FieldValues, Rate : FieldValues,
                    RatePeriod : FieldValues, Rps : FieldValues,
                    ConcurrentStreams : FieldValues,
                    Clients : -1..MaxClients]
    /\ newClients = <<>>
    /\ newResult = "call"

\* Lines 53-56: Validate, then make([]*H2Client, 0, conf.Clients).
NewValidate ==
    /\ newResult = "call"
    /\ newResult' = IF Validate(newConf) # "nil" THEN "error" ELSE "loop"
/\ UNCHANGED <<conf, panicked, connVars, poolVars, aggVars, newConf,
               newClients, fanVars, reqVars, avgVars>>

\* Lines 57-60: one iteration.  NewH2Client panics when url.Parse fails
\* (h2client.go 43-45).
NewAppend ==
    /\ ~panicked
    /\ newResult = "loop"
    /\ Len(newClients) < newConf.Clients
    /\ IF UrlParses(newConf.URL)
       THEN /\ newClients' = Append(newClients, NewH2Client)
            /\ UNCHANGED panicked
       ELSE /\ panicked' = TRUE
            /\ UNCHANGED newClients
/\ UNCHANGED <<conf, connVars, poolVars, aggVars, newConf, newResult, fanVars,
               reqVars, avgVars>>

\* Line 61.
NewReturn ==
    /\ ~panicked
    /\ newResult = "loop"
    /\ Len(newClients) = newConf.Clients
    /\ newResult' = "pool"
/\ UNCHANGED <<conf, panicked, connVars, poolVars, aggVars, newConf,
               newClients, fanVars, reqVars, avgVars>>

NextNew == NewValidate \/ NewAppend \/ NewReturn

SpecNew == InitNew /\ [][NextNew]_vars


\* ------------------------------------------- RunConcurrent (utils.go 19-55)

MaxItems == 3
ItemIds == 1..MaxItems
Items == DOMAIN workerPc

\* The closer goroutine stays blocked in wg.Wait().
WorkersLeft == {i \in Items : workerPc[i] # "done"}

\* A closer that does not wait for the goroutines.
NoWgWait == TRUE

\* wg.Wait() of line 35 returns.
WgDone == WorkersLeft = {}

\* Lines 20-30, for a fan-out over n items (Connect and Run pass h.Clients):
\* the goroutines are started, none has run.
InitFan ==
    /\ NoPool /\ AggIdle /\ NewIdle /\ ReqIdle
    /\ \E n \in 0..MaxItems :
          /\ workerPc = [i \in 1..n |-> "start"]
          /\ fnCalls = [i \in 1..n |-> 0]
          /\ fnErr = [i \in 1..n |-> FALSE]
    /\ errCh = <<>>
    /\ errChClosed = FALSE
    /\ errs = <<>>
    /\ fanPc = "range"

\* Line 26: the goroutine of item i calls fn(val).
FanCall(i) ==
    /\ ~panicked
    /\ i \in Items
    /\ workerPc[i] = "start"
    /\ workerPc' = [workerPc EXCEPT ![i] = "fn"]
    /\ fnCalls' = [fnCalls EXCEPT ![i] = @ + 1]
/\ UNCHANGED <<conf, panicked, connVars, poolVars, aggVars, newVars, fnErr,
               errCh, errChClosed, errs, fanPc, reqVars, avgVars>>

\* Line 26: fn returns, with an error or without.
FanFnReturn(i) ==
    /\ ~panicked
    /\ i \in Items
    /\ workerPc[i] = "fn"
    /\ \E failed \in BOOLEAN :
          /\ fnErr' = [fnErr EXCEPT ![i] = failed]
          /\ workerPc' = [workerPc EXCEPT ![i] =
                             IF failed THEN "send" ELSE "done"]
/\ UNCHANGED <<conf, panicked, connVars, poolVars, aggVars, newVars, fnCalls,
               errCh, errChClosed, errs, fanPc, reqVars, avgVars>>

\* Lines 27 and 25: errCh <- IndexedError{Index: idx}, then wg.Done().  The
\* channel has room for every item; idx is the item's position, from 0.
FanSend(i) ==
    /\ ~panicked
    /\ i \in Items
    /\ workerPc[i] = "send"
    /\ Len(errCh) < Len(workerPc)
    /\ IF errChClosed
       THEN /\ panicked' = TRUE
            /\ UNCHANGED <<errCh, workerPc>>
       ELSE /\ errCh' = Append(errCh, [Index |-> i - 1])
            /\ workerPc' = [workerPc EXCEPT ![i] = "done"]
            /\ UNCHANGED panicked
/\ UNCHANGED <<conf, connVars, poolVars, aggVars, newVars, fnCalls, fnErr,
               errChClosed, errs, fanPc, reqVars, avgVars>>

\* Lines 34-37: the closer goroutine.
FanClose ==
    /\ ~panicked
    /\ fanPc # "none"
    /\ ~errChClosed
    /\ WgDone
    /\ errChClosed' = TRUE
/\ UNCHANGED <<conf, panicked, connVars, poolVars, aggVars, newVars, fnCalls,
               fnErr, workerPc, errCh, errs, fanPc, reqVars, avgVars>>

\* Lines 40-42: one iteration of the range over errCh.
FanRecv ==
    /\ ~panicked
    /\ fanPc = "range"
    /\ errCh # <<>>
    /\ errs' = Append(errs, Head(errCh))
    /\ errCh' = Tail(errCh)
/\ UNCHANGED <<conf, panicked, connVars, poolVars, aggVars, newVars, fnCalls,
               fnErr, workerPc, errChClosed, fanPc, reqVars, avgVars>>

\* Lines 40 and 44: errCh is closed and drained, RunConcurrent returns.
FanReturn ==
    /\ ~panicked
    /\ fanPc = "range"
    /\ errCh = <<>>
    /\ errChClosed
    /\ fanPc' = "ret"
/\ UNCHANGED <<conf, panicked, connVars, poolVars, aggVars, newVars, fnCalls,
               fnErr, workerPc, errCh, errChClosed, errs, reqVars, avgVars>>

\* A call that reports every fan-out as successful.
JoinNil(es) == [nil |-> TRUE, lines |-> <<>>]

\* JoinIndexedErrors, lines 46-55: nil for no errors, else one line each.
JoinIndexedErrors(es) ==
    [nil |-> Len(es) = 0, lines |-> [k \in 1..Len(es) |-> es[k].Index]]

NextFan ==
    \/ \E i \in ItemIds : FanCall(i) \/ FanFnReturn(i) \/ FanSend(i)
    \/ FanClose \/ FanRecv \/ FanReturn

SpecFan == InitFan /\ [][NextFan]_vars


\* ------------------------------------------ Start (h2loadClient.go 89-94)

\* Start has called Connect: RunConcurrent over h.Clients with c.Connect(),
\* which returns an error when url.Parse rejects the client's Conf.URL
\* (h2client.go 122-136) and nil otherwise.
InitStart ==
    /\ \E r \in 1..MaxRateRequests, n \in 1..MaxClients :
          /\ ConnState(Conf(r, 1, 0, RpsModeBurst, n), FALSE)
          /\ workerPc = [i \in 1..n |-> "start"]
          /\ fnCalls = [i \in 1..n |-> 0]
          /\ fnErr = [i \in 1..n |-> FALSE]
    /\ errCh = <<>>
    /\ errChClosed = FALSE
    /\ errs = <<>>
    /\ fanPc = "range"
    /\ startPc = "connect"
    /\ AggIdle /\ NewIdle /\ ReqIdle

\* Lines 90-92: Connect returned an error, Start returns it wrapped.
StartFail ==
    /\ ~panicked
    /\ startPc = "connect"
    /\ fanPc = "ret"
    /\ ~JoinIndexedErrors(errs).nil
    /\ startPc' = "err"
/\ UNCHANGED <<conf, panicked, connVars, runPc, callPc, aggVars, newVars,
               fanVars, reqVars, avgVars>>

\* Line 93: Connect returned nil, Start calls Run, which starts one pump per
\* client.
StartRun ==
    /\ ~panicked
    /\ startPc = "connect"
    /\ fanPc = "ret"
    /\ JoinIndexedErrors(errs).nil
    /\ startPc' = "run"
    /\ runPc' = "fan"
    /\ pumpPc' = [c \in Conns |-> "spawned"]
/\ UNCHANGED <<conf, panicked, ctxDone, sentRequests, async, streams, tasks,
               firstErr, statsChan, statsClosed, colPc, colEntry, stats,
               logger, logChan, logClosed, sinkPc, rpsTokens, rpsClosed,
               tickersOn, resetTick, evenTick, burstPc, burstI, evenPc, reqWg,
               waitPc, launched, enqueued, dropped, failedCalls, tokenHeld,
               sinceTick, callPc, aggVars, newVars, fanVars, reqVars, avgVars>>

\* Line 93: Run returns, and Start with it.
StartReturn ==
    /\ ~panicked
    /\ startPc = "run"
    /\ \A c \in Conns : pumpPc[c] = "done"
    /\ startPc' = "ret"
    /\ runPc' = "ret"
/\ UNCHANGED <<conf, panicked, connVars, callPc, aggVars, newVars, fanVars,
               reqVars, avgVars>>

NextStart ==
    \/ \E i \in ItemIds : FanCall(i) \/ FanFnReturn(i) \/ FanSend(i)
    \/ FanClose \/ FanRecv \/ FanReturn
    \/ StartFail \/ StartRun \/ StartReturn
    \/ \E c \in ConnIds : PumpStep(c) \/ TaskStep(c) \/ CollectorStep(c)

SpecStart == InitStart /\ [][NextStart]_vars


\* --------------------------------------- the rate limiter at higher rates

MaxRateRps == 2

\* One rate-limited connection, Rps up to MaxRateRps, under both policies,
\* count-bounded or unbounded, stopped at any time or never.
InitRate ==
    \E r \in 0..MaxRateRequests, p \in 1..MaxRateRps, m \in Modes :
        ConnInit(Conf(r, MaxRateStreams, p, m, 1), FALSE)

NextRate ==
    \E c \in ConnIds :
        \/ DoRequestsFactoryCall(c) \/ Stop(c)
        \/ CoreStep(c) \/ RateStep(c)

SpecRate == InitRate /\ [][NextRate]_vars

\* ----------------------- request objects (h2client.go 227-234, 344-345;
\* ------------------------------------------- h2loadClient.go 71-80)

\* The run paths that build the factory from a single request.
ReqPaths == {"DoRequests", "RunRequests", "Run"}

\* Request attempts per connection.
MaxAttempts == 3

\* The caller's request: the argument of DoRequests / RunRequests, or the
\* request Run() builds once (h2loadClient.go 78).
CallerReq == 0

\* h2client.go 229-233: DoRequests wraps req in a factory that clones it;
\* h2loadClient.go 72-74: RunRequests wraps req in a factory that returns it.
FactoryClones == reqPath = "DoRequests"

InitReq ==
    \E r \in 1..MaxAttempts, n \in 1..MaxClients, p \in ReqPaths :
        /\ ConnState(Conf(r, 1, 0, RpsModeBurst, n), FALSE)
        /\ startPc = "none"
        /\ AggIdle /\ NewIdle /\ FanIdle
        /\ reqPath = p
        /\ reqNext = 0
        /\ reqHeld = [c \in 1..n |-> -1]
        /\ reqUsed = [c \in 1..n |-> <<>>]
        /\ avgPc = "none" /\ avgStats = ZeroStats

\* h2client.go 344: req := factory(), in a request goroutine of c.
ReqFactory(c) ==
    /\ Live(c)
    /\ reqHeld[c] = -1
    /\ Len(reqUsed[c]) < conf.Requests
    /\ IF FactoryClones
       THEN /\ reqNext' = reqNext + 1
            /\ reqHeld' = [reqHeld EXCEPT ![c] = reqNext + 1]
       ELSE /\ reqHeld' = [reqHeld EXCEPT ![c] = CallerReq]
            /\ UNCHANGED reqNext
    /\ UNCHANGED <<conf, panicked, connVars, poolVars, aggVars, newVars,
                   fanVars, reqPath, reqUsed, avgVars>>

\* h2client.go 345: h.DoRequest(req) executes the attempt with that object.
ReqExecute(c) ==
    /\ Live(c)
    /\ reqHeld[c] # -1
    /\ reqUsed' = [reqUsed EXCEPT ![c] = Append(@, reqHeld[c])]
    /\ reqHeld' = [reqHeld EXCEPT ![c] = -1]
    /\ UNCHANGED <<conf, panicked, connVars, poolVars, aggVars, newVars,
                   fanVars, reqPath, reqNext, avgVars>>

NextReq ==
    \E c \in ConnIds :
        \/ ReqFactory(c)
        \/ ReqExecute(c)

SpecReq == InitReq /\ [][NextReq]_vars

\* --------------------------- the pool's lifecycle under a fair scheduler

\* A pool on which Run, Stop and Wait are called at any time or never, under
\* a scheduler that lets every goroutine that can run do so.  Whether and
\* when the caller invokes Run, Stop or Wait is left open.  No logger is
\* installed.
InitLife ==
    \E r \in 1..MaxRateRequests, n \in 1..MaxClients :
        ConnInit(Conf(r, MaxRateStreams, 0, RpsModeBurst, n), FALSE)

NextLife ==
    \/ PoolRun \/ PoolRunReturn
    \/ PoolStop \/ PoolStopReturn
    \/ PoolWait \/ PoolWaitReturn
    \/ \E c \in ConnIds :
          \/ PoolStopWorker(c) \/ PoolWaitWorker(c)
          \/ CoreStep(c)

FairLife ==
    /\ WF_vars(PoolRunReturn)
    /\ WF_vars(PoolStopReturn)
    /\ WF_vars(PoolWaitReturn)
    /\ \A c \in ConnIds :
          /\ WF_vars(PoolStopWorker(c))
          /\ WF_vars(PoolWaitWorker(c))
          /\ WF_vars(PumpStep(c))
          /\ WF_vars(TaskStep(c))
          /\ WF_vars(CollectorStep(c))
          /\ WF_vars(WaitStep(c))

SpecLife == InitLife /\ [][NextLife]_vars /\ FairLife

\* ------------------------- GetAvgClientStats (h2loadClient.go 174-188)

MaxAvgClients == 2

\* Lines 180-182: int64(float64(x) / float64(n)) for n > 0.  The counters are
\* non-negative and far below 2^53, so the float quotient truncates to the
\* integer quotient.
AvgCount(x, n) == x \div n

\* Lines 179-187 for clientCount = n > 0.
AvgClientStats(total, n) ==
    [TotalRequests |-> AvgCount(total.TotalRequests, n),
     SuccessRequests |-> AvgCount(total.SuccessRequests, n),
     FailedRequests |-> AvgCount(total.FailedRequests, n),
     MinLatency |-> total.MinLatency,
     MaxLatency |-> total.MaxLatency,
     TotalLatency |-> total.TotalLatency \div n,
     Duration |-> total.Duration]

\* A pool of 0..MaxAvgClients connections, each with the statistics of a
\* finished or unfinished run; Validate accepts Clients = 0 (h2load.go 52).
InitAvg ==
    /\ NoPool /\ NewIdle /\ FanIdle
    /\ reqPath = "none" /\ reqNext = 0 /\ reqHeld = <<>> /\ reqUsed = <<>>
    /\ \E n \in 0..MaxAvgClients : aggClients \in [1..n -> ClientStatsSet]
    /\ aggIdx = 0
    /\ totalStats = ZeroStats
    /\ avgPc = "total"
    /\ avgStats = ZeroStats

\* Line 175: h.GetTotalStats(), one client per step.
AvgTotalStep ==
    /\ avgPc = "total"
    /\ AggStep

\* Lines 176-187: the struct literal.  The float divisions of lines 180-182
\* do not fail for clientCount = 0; the integer division of line 185 panics.
AvgReturn ==
    /\ avgPc = "total"
    /\ aggIdx = Len(aggClients)
    /\ IF Len(aggClients) = 0
       THEN /\ panicked' = TRUE
            /\ avgPc' = "panic"
            /\ UNCHANGED avgStats
       ELSE /\ avgStats' = AvgClientStats(totalStats, Len(aggClients))
            /\ avgPc' = "ret"
            /\ UNCHANGED panicked
/\ UNCHANGED <<conf, connVars, poolVars, aggVars, newVars, fanVars, reqVars>>

NextAvg == AvgTotalStep \/ AvgReturn

SpecAvg == InitAvg /\ [][NextAvg]_vars

\* ------------------------------------------------------------ properties

\* C1: for every connection and in every reachable state, the request tasks
\* launched by the admission loop that have not yet released their slot
\* number at most ConcurrentStreams.
ConcurrencyCap ==
    \A c \in Conns : TaskCount(c) <= conf.ConcurrentStreams

\* The limit binds: every slot is taken and the pump is asking for another.
ConcurrencyCapReached ==
    \E c \in Conns :
        /\ conf.ConcurrentStreams >= 2
        /\ TaskCount(c) = conf.ConcurrentStreams
        /\ pumpPc[c] = "slot"
        /\ ~ctxDone[c]
        /\ ~CeilingReached(c)

\* C2: whenever statistics can be read (GetStats, GetTotalStats, neither of
\* which synchronises with the collector), SuccessRequests + FailedRequests
\* equals TotalRequests, per connection and for the total.
StatsAddUp ==
    /\ \A c \in Conns :
          stats[c].SuccessRequests + stats[c].FailedRequests
              = stats[c].TotalRequests
    /\ LET total == GetTotalStats(stats)
       IN  total.SuccessRequests + total.FailedRequests = total.TotalRequests

\* C3: once a connection's cancellation signal is raised, its pump dispatches
\* nothing: sentRequests does not change and no request task is launched.
NoDispatchAfterCancel ==
    [][\A c \in Conns :
          ctxDone[c] => /\ sentRequests'[c] = sentRequests[c]
                        /\ launched'[c] = launched[c]]_vars

\* C4: when Wait has returned on a connection, the pump has returned and
\* recorded Duration, every dispatched request task has completed, the
\* collector has applied every enqueued outcome and exited, and the log sink,
\* if installed, has consumed every enqueued line and exited.
WaitReturnsDrained ==
    \A c \in Conns :
        waitPc[c] = "ret" =>
            /\ pumpPc[c] = "done"
            /\ TaskCount(c) = 0
            /\ colPc[c] = "exit"
            /\ statsChan[c] = <<>>
            /\ stats[c].TotalRequests = enqueued[c]
            /\ logger[c] => sinkPc[c] = "exit" /\ logChan[c] = 0
            /\ stats[c].Duration > 0

\* Wait has returned from a stopped run with a logger that dispatched twice.
WaitReturned ==
    \E c \in Conns :
        /\ waitPc[c] = "ret"
        /\ ctxDone[c]
        /\ logger[c]
        /\ launched[c] >= 2
        /\ stats[c].TotalRequests >= 1

\* C5: in a count-bounded run (Requests = N > 0) that is never stopped and
\* whose transport calls all return, every pump eventually returns having
\* dispatched exactly N requests.
PumpCompletes ==
    <>(\A c \in Conns : pumpPc[c] = "done" /\ sentRequests[c] = conf.Requests)

\* The sum of the per-connection counters, taken over the set of connections.
RECURSIVE SumSent(_)
SumSent(S) ==
    IF S = {} THEN 0
    ELSE LET c == CHOOSE x \in S : TRUE
         IN  sentRequests[c] + SumSent(S \ {c})

SentCounted ==
    /\ \A c \in Conns :
          /\ sentRequests[c] = launched[c]
          /\ conf.Requests > 0 => sentRequests[c] <= conf.Requests
    /\ GetSentRequests = SumSent(Conns)

\* C6: a connection's sent-request counter never decreases, equals the
\* number of request tasks launched so far, never exceeds Requests when
\* Requests > 0, and the pool's GetSentRequests is the sum of the counters.
SentCounter ==
    /\ []SentCounted
    /\ [][\A c \in Conns : sentRequests'[c] >= sentRequests[c]]_vars

\* Two connections of one pool have each dispatched.
SentCounterPool ==
    /\ conf.Clients = 2
    /\ conf.Requests > 0
    /\ \A c \in Conns : sentRequests[c] = conf.Requests /\ pumpPc[c] = "done"
    /\ GetSentRequests = 2 * conf.Requests

\* C7: in a duration-bounded run (Requests = 0) no pump leaves its loop
\* before its cancellation signal is raised, and once the pool's Stop or Wait
\* has been called the run can always go on until they have returned.
DurationRunEnds ==
    conf.Requests = 0 =>
        /\ \A c \in Conns :
              pumpPc[c] \in {"drain", "defers", "close", "done"} => ctxDone[c]
        /\ callPc \in {"stop", "stopped", "wait"} => ENABLED NextPool

\* The sum of f over the clients of the slice.
RECURSIVE SumOver(_, _)
SumOver(f(_), S) ==
    IF S = {} THEN 0
    ELSE LET i == CHOOSE x \in S : TRUE IN f(i) + SumOver(f, S \ {i})

AggTotal(i) == aggClients[i].TotalRequests
AggSuccess(i) == aggClients[i].SuccessRequests
AggFailed(i) == aggClients[i].FailedRequests
AggLatency(i) == aggClients[i].TotalLatency

\* C8: when every connection has recorded an outcome, GetTotalStats returns
\* the sums of the counts and of TotalLatency, the largest MaxLatency, the
\* smallest MinLatency and the longest Duration over the connections,
\* whatever their order.
TotalStatsAggregate ==
    LET I == DOMAIN aggClients IN
    (aggIdx = Len(aggClients) /\ \A i \in I : aggClients[i].TotalRequests >= 1)
    => /\ totalStats = GetTotalStats(aggClients)
       /\ totalStats.TotalRequests = SumOver(AggTotal, I)
       /\ totalStats.SuccessRequests = SumOver(AggSuccess, I)
       /\ totalStats.FailedRequests = SumOver(AggFailed, I)
       /\ totalStats.TotalLatency = SumOver(AggLatency, I)
       /\ \E i \in I : totalStats.MaxLatency = aggClients[i].MaxLatency
       /\ \A i \in I : totalStats.MaxLatency >= aggClients[i].MaxLatency
       /\ \E i \in I : totalStats.MinLatency = aggClients[i].MinLatency
       /\ \A i \in I : totalStats.MinLatency <= aggClients[i].MinLatency
       /\ \E i \in I : totalStats.Duration = aggClients[i].Duration
       /\ \A i \in I : totalStats.Duration >= aggClients[i].Duration

\* Three connections whose smallest minimum is the second's and whose
\* longest duration is the last's have been aggregated.
TotalStatsAggregated ==
    /\ Len(aggClients) = 3
    /\ aggIdx = 3
    /\ \A i \in 1..3 : aggClients[i].TotalRequests >= 1
    /\ aggClients[2].MinLatency < aggClients[1].MinLatency
    /\ aggClients[1].MinLatency < aggClients[3].MinLatency
    /\ aggClients[3].Duration > aggClients[1].Duration
    /\ totalStats.MinLatency = aggClients[2].MinLatency

\* C9: NewH2loadClient returns a validation error and constructs nothing if
\* and only if the URL is empty or a numeric field is negative; otherwise it
\* returns a pool of exactly Clients connections, each in its own fresh state.
ConstructorOutcome ==
    LET invalid == \/ newConf.URL = ""
                   \/ newConf.Requests < 0 \/ newConf.Rate < 0
                   \/ newConf.RatePeriod < 0 \/ newConf.Rps < 0
                   \/ newConf.ConcurrentStreams < 0 \/ newConf.Clients < 0
    IN  /\ ~panicked
        /\ newResult = "error" => invalid /\ newClients = <<>>
        /\ newResult = "loop" => ~invalid
        /\ newResult = "pool" =>
              /\ ~invalid
              /\ Len(newClients) = newConf.Clients
              /\ \A i \in DOMAIN newClients : newClients[i] = NewH2Client

\* C10: when a pool fan-out returns, the operation has been invoked exactly
\* once on every connection and every invocation has returned, failures
\* included; the returned error names every failing connection exactly once,
\* by its own index, and is nil if and only if none failed.  No connection
\* is ever invoked twice.
FanOutComplete ==
    /\ \A i \in Items : fnCalls[i] <= 1
    /\ fanPc = "ret" =>
          /\ ~panicked
          /\ \A i \in Items : fnCalls[i] = 1 /\ workerPc[i] = "done"
          /\ {errs[k].Index : k \in DOMAIN errs}
                = {i - 1 : i \in {j \in Items : fnErr[j]}}
          /\ Len(errs) = Cardinality({j \in Items : fnErr[j]})
          /\ JoinIndexedErrors(errs).nil <=> \A i \in Items : ~fnErr[i]

\* A fan-out over three connections returns after the first and the last
\* failed, the last one's error reported first.
FanOutReturned ==
    /\ fanPc = "ret"
    /\ Len(workerPc) = 3
    /\ fnErr = <<TRUE, FALSE, TRUE>>
    /\ Len(errs) = 2
    /\ errs[1].Index = 2

\* C11: once Connect has failed on any connection, no pump is ever started
\* (no request is dispatched, no counter changes) and Start does not reach
\* Run; when Connect has returned, Start can only return the error.
StartFailsFast ==
    (\E i \in Items : fnErr[i]) =>
        /\ startPc \in {"connect", "err"}
        /\ \A c \in Conns :
              pumpPc[c] = "idle" /\ sentRequests[c] = 0 /\ launched[c] = 0
        /\ (startPc = "connect" /\ fanPc = "ret") => ENABLED StartFail

\* Start has returned the error of a Connect that failed on the second of
\* two connections only.
StartFailed ==
    /\ startPc = "err"
    /\ conf.Clients = 2
    /\ fnErr = <<FALSE, TRUE>>
    /\ fnCalls = <<1, 1>>

\* C12: a later failure never replaces the error DoRequestsFactory has
\* recorded (the first one observed stays), and the pump's result is nil if
\* and only if no attempt failed.
FirstErrorKept ==
    /\ [][\A c \in Conns : firstErr[c] => ~ErrStore(c)]_vars
    /\ [](\A c \in Conns :
            pumpPc[c] = "done" => (firstErr[c] <=> failedCalls[c] > 0))

\* The pump has left the admission loop.
PastLoop(c) == pumpPc[c] \in {"drain", "defers", "close", "done"}

\* A step in which a transport call is found to have failed offers exactly
\* one outcome, with status 0: it is enqueued, or discarded by a full queue.
FailureReported(c) ==
    failedCalls'[c] = failedCalls[c] + 1 =>
        \/ /\ Len(statsChan'[c]) = Len(statsChan[c]) + 1
           /\ statsChan'[c][Len(statsChan'[c])][1] = 0
           /\ dropped'[c] = dropped[c]
        \/ /\ statsChan'[c] = statsChan[c]
           /\ dropped'[c] = dropped[c] + 1

\* A step in which the collector finishes an entry counts it as successful
\* if and only if 200 <= status < 400, and as failed otherwise.
EntryClassified(c) ==
    (colPc[c] = "apply" /\ colPc'[c] = "recv") =>
        LET status == colEntry[c][1]
            ok == 200 <= status /\ status < 400
        IN  /\ stats'[c].SuccessRequests
                 = stats[c].SuccessRequests + (IF ok THEN 1 ELSE 0)
            /\ stats'[c].FailedRequests
                 = stats[c].FailedRequests + (IF ok THEN 0 ELSE 1)

\* C13 as stated: every failed transport call ends up counted as failed.
EveryFailureCounted ==
    \A c \in Conns :
        waitPc[c] = "ret" => stats[c].FailedRequests >= failedCalls[c]

\* C13: a failed transport call is reported exactly once, with status 0; an
\* outcome the collector receives is counted successful iff 200 <= status <
\* 400, so a received status 0 is counted failed and, once Wait has returned,
\* only discarded outcomes are missing from the failures; and a failure does
\* not end the admission loop, which is left only on cancellation or at the
\* count ceiling.
FailureRecorded ==
    /\ [][\A c \in Conns : FailureReported(c) /\ EntryClassified(c)]_vars
    /\ [](\A c \in Conns :
            /\ waitPc[c] = "ret" =>
                  stats[c].FailedRequests + dropped[c] >= failedCalls[c]
            /\ PastLoop(c) => ctxDone[c] \/ CeilingReached(c))

\* The first call failed and was counted, and the pump went on to a second
\* request, which succeeded.
FailureThenSuccess ==
    \E c \in Conns :
        /\ waitPc[c] = "ret"
        /\ ~ctxDone[c]
        /\ failedCalls[c] = 1 /\ firstErr[c]
        /\ conf.ConcurrentStreams = 1 /\ launched[c] = 2
        /\ stats[c].FailedRequests = 1 /\ stats[c].SuccessRequests = 1

\* A step that adds a token under burst policy is one iteration of the
\* one-second goroutine's fill loop: it adds exactly one token, in an
\* iteration numbered below Rps, and moves on to the next iteration or, after
\* the last, back to waiting for a tick.
BurstMint(c) ==
    (conf.RpsMode = RpsModeBurst /\ rpsTokens'[c] > rpsTokens[c]) =>
        /\ rpsTokens'[c] = rpsTokens[c] + 1
        /\ burstPc[c] = "fill"
        /\ burstI[c] < conf.Rps
        /\ IF burstI[c] + 1 < conf.Rps
           THEN burstPc'[c] = "fill" /\ burstI'[c] = burstI[c] + 1
           ELSE burstPc'[c] = "wait" /\ burstI'[c] = 0

\* The fill loop is entered only by receiving a tick, at iteration 0.
BurstFillOnTick(c) ==
    (burstPc[c] # "fill" /\ burstPc'[c] = "fill") =>
        /\ burstPc[c] = "wait"
        /\ burstI'[c] = 0
        /\ \/ tickersOn[c] /\ resetTick[c] = 0 /\ resetTick'[c] = 0
           \/ resetTick[c] = 1 /\ resetTick'[c] = 0

\* C14: under burst policy the refill goroutine adds tokens only in the fill
\* loop that a one-second tick starts, one per iteration, and the loop has
\* Rps iterations: at most Rps tokens per tick, whatever the pump consumes.
BurstRefill ==
    /\ [][\A c \in Conns : BurstMint(c) /\ BurstFillOnTick(c)]_vars
    /\ [](\A c \in Conns :
            /\ burstI[c] < conf.Rps
            /\ burstPc[c] = "wait" => burstI[c] = 0
            /\ burstPc[c] = "fill" => conf.RpsMode = RpsModeBurst)

\* One tick has filled an empty reservoir with two tokens while the pump
\* was not consuming.
BurstFilled ==
    \E c \in Conns :
        /\ conf.RpsMode = RpsModeBurst /\ conf.Rps = 2
        /\ rpsTokens[c] = 2
        /\ burstPc[c] = "wait"
        /\ sentRequests[c] = 0

\* A step that adds a token under even policy is the even goroutine's single
\* attempt for the tick it received: exactly one token, then back to waiting
\* for the next interval tick.
EvenMint(c) ==
    (conf.RpsMode = RpsModeEven /\ rpsTokens'[c] > rpsTokens[c]) =>
        /\ rpsTokens'[c] = rpsTokens[c] + 1
        /\ evenPc[c] = "select"
        /\ evenPc'[c] = "wait"

\* The attempt is reached only by receiving an interval tick.
EvenAttemptOnTick(c) ==
    (evenPc[c] # "select" /\ evenPc'[c] = "select") =>
        /\ evenPc[c] = "wait"
        /\ \/ tickersOn[c] /\ evenTick[c] = 0 /\ evenTick'[c] = 0
           \/ evenTick[c] = 1 /\ evenTick'[c] = 0

\* C15: under even policy tokens are added one at a time, by one attempt per
\* interval tick, and the one-second goroutine never fills.
EvenRefill ==
    /\ [][\A c \in Conns : EvenMint(c) /\ EvenAttemptOnTick(c)]_vars
    /\ [](\A c \in Conns :
            conf.RpsMode = RpsModeEven => burstPc[c] # "fill" /\ burstI[c] = 0)

\* Two interval ticks have each added one token, after the one-second
\* ticker had fired.
EvenFilled ==
    \E c \in Conns :
        /\ conf.RpsMode = RpsModeEven /\ conf.Rps = 2
        /\ rpsTokens[c] = 2
        /\ evenPc[c] = "wait"
        /\ tickersOn[c]

\* A goroutine standing at its refill select can always take a step.
RefillNeverBlocks(c) ==
    /\ burstPc[c] = "fill" => ENABLED BurstFill(c)
    /\ evenPc[c] = "select" => ENABLED EvenFill(c)

\* An attempt on a full reservoir adds nothing and the goroutine moves on to
\* its next iteration or its next tick.
FullDiscards(c) ==
    (rpsTokens[c] = conf.Rps /\ ~rpsClosed[c] /\ ~ctxDone[c]) =>
        /\ rpsTokens'[c] <= rpsTokens[c]
        /\ (burstPc[c] = "fill" /\ BurstFill(c)) =>
               \/ burstI'[c] = burstI[c] + 1
               \/ burstPc'[c] = "wait"
        /\ (evenPc[c] = "select" /\ EvenFill(c)) => evenPc'[c] = "wait"

\* C16: the reservoir never holds more than Rps tokens, and a refill attempt
\* on a full reservoir is dropped without blocking the refill goroutine.
ReservoirBounded ==
    /\ [](\A c \in Conns :
            /\ rpsTokens[c] <= conf.Rps
            /\ ~panicked => RefillNeverBlocks(c))
    /\ [][\A c \in Conns : FullDiscards(c)]_vars

\* The second burst refill has just dropped its first token: no token was
\* ever taken, the first refill put Rps = 2 tokens in, and the loop of the
\* second one has advanced to i = 1 with the reservoir still at 2.
RefillDiscarded ==
    \E c \in Conns :
        /\ conf.RpsMode = RpsModeBurst /\ conf.Rps = 2
        /\ rpsTokens[c] = 2
        /\ burstPc[c] = "fill" /\ burstI[c] = 1
        /\ sentRequests[c] = 0 /\ pumpPc[c] = "token"
        /\ ~ctxDone[c]

\* C17: once the connection's context is cancelled, no step adds a token to
\* its reservoir.
NoRefillAfterCancel ==
    [][\A c \in Conns : ctxDone[c] => rpsTokens'[c] <= rpsTokens[c]]_vars

\* A refill goroutine that was started and has not returned.
RefillRunning(c) ==
    \/ burstPc[c] \in {"wait", "fill"}
    \/ evenPc[c] \in {"wait", "select"}

\* Some refill goroutine of c has a step to take.
RefillCanStep(c) ==
    ENABLED (BurstRecv(c) \/ BurstFill(c) \/ EvenRecv(c) \/ EvenFill(c))

\* C18: once the pump has returned, a refill goroutine that has not
\* terminated can still take a step towards its return: none is left blocked
\* on the channel of a stopped ticker, which never delivers again.
RefillTasksEnd ==
    \A c \in Conns :
        (~panicked /\ pumpPc[c] = "done" /\ RefillRunning(c)) =>
            RefillCanStep(c)

\* A request goroutine holding an outcome can always report it.
ReportEnabled(c) == tasks[c]["resp"] > 0 => ENABLED Report(c)

\* Reporting to a full queue leaves the queue as it was, discards the
\* outcome (the line) and lets the goroutine go on towards its release.
FullQueueDrops(c) ==
    (Report(c) /\ ~panicked') =>
        /\ tasks'[c]["resp"] = tasks[c]["resp"] - 1
        /\ Len(statsChan[c]) = StatsChanCap =>
               /\ statsChan'[c] = statsChan[c]
               /\ dropped'[c] = dropped[c] + 1
        /\ logChan[c] = LogChanCap => logChan'[c] = logChan[c]

\* C19: reporting never blocks; the counted total never exceeds the number
\* of dispatched requests and, once Wait has returned, is the number of
\* dispatched requests minus the discarded outcomes.
ReportNeverBlocks ==
    /\ [][\A c \in Conns : FullQueueDrops(c)]_vars
    /\ [](\A c \in Conns :
            /\ ~panicked => ReportEnabled(c)
            /\ Len(statsChan[c]) <= StatsChanCap
            /\ stats[c].TotalRequests <= sentRequests[c]
            /\ waitPc[c] = "ret" =>
                   stats[c].TotalRequests = sentRequests[c] - dropped[c])

\* Wait has returned after two dispatched requests of which one outcome was
\* discarded on a full queue.
OutcomeDiscarded ==
    \E c \in Conns :
        /\ waitPc[c] = "ret"
        /\ sentRequests[c] = 2
        /\ dropped[c] = 1
        /\ stats[c].TotalRequests = 1

\* Every dispatched request has reported: its outcome was enqueued or
\* discarded, and its goroutine has released its slot.
AllReported(c) ==
    /\ TaskCount(c) = 0
    /\ launched[c] = enqueued[c] + dropped[c]

\* C20: the two queues are closed only after the admission loop has exited
\* and every dispatched request has reported; no goroutine holding an outcome
\* ever faces a closed queue; a collector that has exited has applied every
\* outcome that was enqueued.
QueuesClosedLate ==
    \A c \in Conns :
        /\ statsClosed[c] <=> logClosed[c]
        /\ statsClosed[c] => pumpPc[c] = "done" /\ AllReported(c)
        /\ tasks[c]["resp"] > 0 => ~SendPanics(c)
        /\ colPc[c] = "exit" =>
               /\ statsClosed[c]
               /\ statsChan[c] = <<>>
               /\ stats[c].TotalRequests = enqueued[c]
               /\ stats[c].SuccessRequests + stats[c].FailedRequests
                      = enqueued[c]

\* The collector has exited after applying the two outcomes enqueued before
\* the pump closed the queues.
CollectorDrained ==
    \E c \in Conns :
        /\ colPc[c] = "exit"
        /\ statsClosed[c]
        /\ enqueued[c] = 2
        /\ stats[c].TotalRequests = 2

\* Request attempts of c whose transport call has completed.
Completed(c) == launched[c] - tasks[c]["run"]

\* A request goroutine starts only in a step that has incremented the
\* counter for it, and an outcome is enqueued only by a goroutine whose
\* transport call had returned.
OrderedSteps(c) ==
    /\ launched'[c] > launched[c] =>
           /\ sentRequests'[c] = sentRequests[c] + 1
           /\ launched'[c] = launched[c] + 1
    /\ enqueued'[c] > enqueued[c] =>
           /\ tasks[c]["resp"] > 0
           /\ tasks'[c]["resp"] = tasks[c]["resp"] - 1
           /\ enqueued'[c] = enqueued[c] + 1

\* C21: applied <= enqueued <= completed transport calls <= sentRequests in
\* every state, the counter increment comes with the start of the request
\* goroutine, and an outcome is enqueued only after its request completed.
OutcomeChain ==
    /\ [][\A c \in Conns : OrderedSteps(c)]_vars
    /\ [](\A c \in Conns :
            /\ stats[c].TotalRequests <= enqueued[c]
            /\ stats[c].SuccessRequests + stats[c].FailedRequests
                   <= stats[c].TotalRequests
            /\ enqueued[c] <= Completed(c)
            /\ Completed(c) <= sentRequests[c]
            /\ launched[c] <= sentRequests[c])

\* Two requests sent: one has completed and its outcome waits in the queue,
\* not yet applied; the other is still in its transport call.
ChainStrict ==
    \E c \in Conns :
        /\ stats[c].TotalRequests = 0
        /\ enqueued[c] = 1
        /\ Completed(c) = 1
        /\ sentRequests[c] = 2
        /\ tasks[c]["run"] = 1

\* C22: no two request attempts, on one connection or on two connections of
\* a pool, are executed with the same request object.
OwnRequestObject ==
    \A c1 \in Conns, c2 \in Conns :
        \A i \in 1..Len(reqUsed[c1]), j \in 1..Len(reqUsed[c2]) :
            (c1 # c2 \/ i # j) => reqUsed[c1][i] # reqUsed[c2][j]

\* C23: the pump takes a token from the reservoir only when the token it
\* took before has led to a dispatched request, so that tokens taken minus
\* requests dispatched is 0 or 1.
TokenPerDispatch ==
    [][\A c \in Conns : rpsTokens'[c] < rpsTokens[c] => ~tokenHeld[c]]_vars

\* C24: under burst policy a connection dispatches at most Rps requests
\* between two consecutive firings of the one-second ticker.
BurstWindow ==
    \A c \in Conns : BurstLimited => sinceTick[c] <= conf.Rps

\* C25: no refill goroutine ever runs its send on a reservoir that the pump
\* has closed, which ends the process with a panic.
NoSendOnClosedReservoir ==
    [][\A c \in Conns :
          ~(rpsClosed[c] /\ (BurstFill(c) \/ EvenFill(c)) /\ panicked')]_vars

\* C26: a call of Wait or Stop on the pool eventually returns, whatever the
\* pool has been through before, a pool whose pumps never ran included.
PoolCallsReturn ==
    (callPc \in {"stop", "wait"}) ~> (callPc \in {"stopped", "waited"})

\* C27: for every accepted configuration, Clients = 0 included,
\* GetAvgClientStats returns a value: it never fails on a division by a zero
\* connection count.
AvgNeverFails == avgPc # "panic"

\* C28: the averages returned by GetAvgClientStats satisfy
\* SuccessRequests + FailedRequests = TotalRequests.
AvgAddsUp ==
    avgPc = "ret" =>
        avgStats.SuccessRequests + avgStats.FailedRequests
            = avgStats.TotalRequests

\* The non-zero minimum latencies of the first n connections.
NonZeroMins(n) == {aggClients[i].MinLatency : i \in 1..n} \ {0}

\* C29: after any number of connections folded, the aggregate MinLatency is
\* the smallest non-zero per-connection minimum, and zero only if every
\* connection's minimum is zero: a connection without outcomes changes
\* nothing, wherever it stands in the list.
ZeroMinIgnored ==
    LET mins == NonZeroMins(aggIdx) IN
    /\ mins = {} => totalStats.MinLatency = 0
    /\ mins # {} =>
           /\ totalStats.MinLatency \in mins
           /\ \A m \in mins : totalStats.MinLatency <= m

\* A connection without outcomes stands between two that have some, the
\* last of which holds the smallest minimum; all three are folded.
ZeroMinBetween ==
    /\ Len(aggClients) = 3
    /\ aggIdx = 3
    /\ aggClients[2].TotalRequests = 0 /\ aggClients[2].MinLatency = 0
    /\ aggClients[3].MinLatency > 0
    /\ aggClients[1].MinLatency > aggClients[3].MinLatency
    /\ totalStats.MinLatency = aggClients[3].MinLatency
====
